---- MODULE Spec2Model ----
(***************************************************************************)
(* Orchestration core of the RSS scheduler service                         *)
(* (src/services/scheduler/main.py, class FeedScheduler): the four         *)
(* recurring jobs, the service locator with static fallback, the           *)
(* bounded-concurrency batch processor and the retention sweeper.          *)
(*                                                                         *)
(* One step of the model is one uninterrupted stretch of the asyncio event *)
(* loop: a coroutine runs from one suspension point to the next.  The      *)
(* storage client (supabase) and the registry client (consul) are          *)
(* synchronous, so the only suspension points of the job bodies are the    *)
(* admission gate, the HTTP calls and the ends of the coroutines.          *)
(*                                                                         *)
(* The parser service's /parse-batch handler                               *)
(* (src/services/feed-parser/main.py) is modelled next to it.              *)
(***************************************************************************)
EXTENDS Integers, Sequences, FiniteSets, TLC

(***************************************************************************)
(* Bounds of the model                                                     *)
(***************************************************************************)
\* number of feeds of the feeds table
MaxFeeds == 3
\* largest active work set explored exhaustively
MaxActive == 2
\* largest configured value of MAX_CONCURRENT_FEEDS explored
MaxCap == 2
\* largest number of items a feed's upstream document carries
MaxItems == 5
\* largest upstream document explored exhaustively
MaxUpstream == 1
\* largest number of healthy instances the registry returns for a service
MaxRegistryLen == 2
\* largest number of due run times the scheduler finds at one wake-up
MaxDue == 2
\* number of clock ticks (days) explored after the initial instant
MaxTicks == 1
\* number of batch runs explored
MaxRuns == 2
\* largest number of URLs in a /parse-batch request
MaxBatch == 3

(***************************************************************************)
(* Program constants                                                       *)
(***************************************************************************)
\* timedelta(days=90) in _cleanup_old_items
RetentionDays == 90
\* default port of FEED_PARSER_URL, "http://localhost:8001"
FallbackParserPort == 8001
\* default port of WEB_API_URL, "http://localhost:8002"
FallbackWebApiPort == 8002

\* the instant at which the model starts observing the service
NowInit == RetentionDays

Feeds == 1..MaxFeeds

JobIds == {"process_feeds", "health_check", "cleanup_old_items", "service_discovery"}

Services == {"feed-parser", "web-api"}

(***************************************************************************)
(* Values                                                                  *)
(***************************************************************************)
\* f"http://{Address}:{Port}" and the URLs of the environment, as host and port
NoUrl == [host |-> "", port |-> 0]
FallbackParserUrl == [host |-> "localhost", port |-> FallbackParserPort]
FallbackWebApiUrl == [host |-> "localhost", port |-> FallbackWebApiPort]

\* the instances a registry may know: the 'Service' part of a health entry
Instances == {[Address |-> "h1", Port |-> 9001], [Address |-> "h2", Port |-> 9002]}

\* what consul_client.health.service(name, passing=True) can do: raise, or
\* return the healthy instances in registry order
RegistryAnswers ==
    {[queried |-> TRUE, raises |-> TRUE, services |-> <<>>]} \cup
    {[queried |-> TRUE, raises |-> FALSE, services |-> s] :
        s \in UNION {[1..n -> Instances] : n \in 0..MaxRegistryLen}}

\* a lookup that a resolution pass did not get to
NotQueried == [queried |-> FALSE, raises |-> FALSE, services |-> <<>>]

\* a timestamp column holding NULL
NoStamp == 0 - 1

\* datetime.isoformat(): the instant as text, most significant digit first
IsoFormat(t) == <<t \div 100, (t \div 10) % 10, t % 10>>

\* the storage engine reading a timestamp literal
ParseTimestamp(s) == (s[1] * 100) + (s[2] * 10) + s[3]

\* conflict rules the feed_items table may have been created with
Schemas == {"pk_feed_link", "pk_id", "pk_id_unique_feed_link"}

\* what the parse call of a feed task can end in
ParseOutcomes == {"ok", "timeout", "request_error", "http_status", "malformed"}

VARIABLES
    \* ---- FeedScheduler fields
    running,              \* self.running
    supabase,             \* TRUE iff self.supabase is a client (credentials present)
    max_concurrent_feeds, \* self.max_concurrent_feeds
    feed_parser_url,      \* self.feed_parser_url
    web_api_url,          \* self.web_api_url
    \* ---- the job store and executor of self.scheduler
    registered,           \* ids of the jobs add_job installed
    inst,                 \* job id -> number of submitted, unfinished instances
    runsLeft,             \* job id -> run times the submitted instance has still to execute
    jobPc,                \* job id -> "idle" | "ready" | "active"
    missed,               \* job id -> TRUE iff the last firing found the job at its instance limit
    job_event,            \* job id -> how its last run ended for the executor: "none" | "executed" | "error"
    \* ---- environment
    last_pass,            \* service name -> what the registry answered in the last resolution pass
    now,                  \* wall clock, in days
    schema,               \* conflict rule of the feed_items table
    upstream,             \* feed -> number of items of its upstream document
    active,               \* the set of feeds with active = true
    plan,                 \* feed -> what the parser and the storage answer to the calls of its task
    \* ---- storage tables
    last_updated,         \* feed -> feeds.last_updated, or NoStamp
    feed_items,           \* <<feed_id, link>> -> created_at of each row with that key, oldest first
    logs,                 \* feed_processing_logs: a set of rows
    \* ---- the batch run in progress
    run,                  \* number of batch runs that created feed tasks
    batch,                \* the feeds read at the start of the run
    sem,                  \* value of the asyncio.Semaphore
    task,                 \* feed -> "none" | "pending" | "parsing" | "done" | "cancelled"
    started_at,           \* feed -> processing_start of its task
    url_used,             \* feed -> endpoint its parse call was sent to
    result,               \* feed -> what gather collected for the task
    emitted,              \* feed -> the log rows its task handed to the storage client in this run
    summary,              \* the batch summaries logged so far, newest last
    logged,               \* the lines the last process_feeds run logged up to its read of the work set
    \* ---- retention sweep and health check
    sweep_report,         \* the deleted counts the last sweep logged, per table
    health,               \* what the probes of the last health check found
    \* ---- the parser service's /parse-batch handler
    parser_pc,            \* "idle" | "parsing" | "responded"
    parser_request,       \* feed_urls of the request being handled
    parser_results,       \* the handler's results list
    parser_response       \* the response sent for that request, or NoResponse

vars == <<running, supabase, max_concurrent_feeds, feed_parser_url, web_api_url,
          registered, inst, runsLeft, jobPc, missed, job_event,
          last_pass, now, schema, upstream, active, plan,
          last_updated, feed_items, logs,
          run, batch, sem, task, started_at, url_used, result, emitted, summary, logged,
          sweep_report, health,
          parser_pc, parser_request, parser_results, parser_response>>

configVars == <<supabase, max_concurrent_feeds, schema, upstream, active, plan>>
locatorVars == <<feed_parser_url, web_api_url, last_pass>>
jobVars == <<registered, inst, runsLeft, jobPc, missed, job_event>>
storageVars == <<last_updated, feed_items, logs>>
batchVars == <<run, batch, sem, task, started_at, url_used, result, emitted, summary>>
probeVars == <<sweep_report, health>>
parserVars == <<parser_pc, parser_request, parser_results, parser_response>>
orchestratorVars == <<running, configVars, locatorVars, jobVars, now, storageVars, batchVars,
                      logged, probeVars>>

(***************************************************************************)
(* Service locator                                                         *)
(***************************************************************************)
\* f"http://{service['Address']}:{service['Port']}" of services[0]['Service']
FirstInstanceUrl(services) == [host |-> services[1].Address, port |-> services[1].Port]

\* a pass whose exception handler forgets to set the fallbacks
DiscoverServicesResultNoFallback(p, w) ==
    IF p.raises \/ w.raises
    THEN [feed_parser_url |-> feed_parser_url,
          web_api_url |-> web_api_url,
          last_pass |-> [s \in Services |->
                            IF s = "feed-parser" THEN p
                            ELSE IF p.raises THEN NotQueried ELSE w]]
    ELSE [feed_parser_url |-> IF Len(p.services) > 0
                              THEN FirstInstanceUrl(p.services) ELSE FallbackParserUrl,
          web_api_url |-> IF Len(w.services) > 0
                          THEN FirstInstanceUrl(w.services) ELSE FallbackWebApiUrl,
          last_pass |-> [s \in Services |-> IF s = "feed-parser" THEN p ELSE w]]

\* One resolution pass, given the registry's answers to the two lookups.  The
\* web-api lookup is made only when the feed-parser lookup returned; an
\* exception of either lookup ends in the handler that sets both fallbacks.
DiscoverServicesResult(p, w) ==
    IF p.raises
    THEN [feed_parser_url |-> FallbackParserUrl,
          web_api_url |-> FallbackWebApiUrl,
          last_pass |-> [s \in Services |-> IF s = "feed-parser" THEN p ELSE NotQueried]]
    ELSE LET pu == IF Len(p.services) > 0
                   THEN FirstInstanceUrl(p.services)
                   ELSE FallbackParserUrl
             wu == IF Len(w.services) > 0
                   THEN FirstInstanceUrl(w.services)
                   ELSE FallbackWebApiUrl
         IN  [feed_parser_url |-> IF w.raises THEN FallbackParserUrl ELSE pu,
              web_api_url |-> IF w.raises THEN FallbackWebApiUrl ELSE wu,
              last_pass |-> [s \in Services |-> IF s = "feed-parser" THEN p ELSE w]]

\* a pass that forgets the cached URLs when the registry raises
DiscoverServicesDropsCache(answers) ==
    \E p \in answers, w \in answers :
        LET r == DiscoverServicesResult(p, w)
            failed == \E s \in Services : r.last_pass[s].raises
        IN  /\ feed_parser_url' = IF failed THEN NoUrl ELSE r.feed_parser_url
            /\ web_api_url' = IF failed THEN NoUrl ELSE r.web_api_url
            /\ last_pass' = r.last_pass

\* await self._discover_services(): no suspension point inside, never raises.
\* `answers` is what the registry may answer to a lookup.
DiscoverServices(answers) ==
    \E p \in answers, w \in answers :
        LET r == DiscoverServicesResult(p, w)
        IN  /\ feed_parser_url' = r.feed_parser_url
            /\ web_api_url' = r.web_api_url
            /\ last_pass' = r.last_pass

(***************************************************************************)
(* Job scheduler                                                           *)
(***************************************************************************)
\* job bodies without their try/except: what was raised leaves the body
BodyEventUncaught(raised) == IF raised THEN "error" ELSE "executed"

\* How a run of a job body ends for the executor, given whether a call inside
\* its try block raised: the except clause of the body logs the exception and
\* the body returns.
BodyEvent(raised) == "executed"

\* job definitions that allow a second concurrent instance
MaxInstancesTwo(j) == 2

\* max_instances of the job definitions
MaxInstances(j) == 1

\* job definitions without coalescing
CoalesceOff(j) == FALSE

\* coalesce of the job definitions: set for process_feeds, the scheduler's
\* default (on) for the other three
Coalesce(j) == TRUE

\* a start() that installs the jobs and leaves the first resolution to the
\* refresh job
StartWithoutResolve(answers) ==
    /\ ~running
    /\ registered = {}
    /\ registered' = JobIds
    /\ running' = TRUE
    /\ UNCHANGED <<parserVars, logged, configVars, locatorVars, inst, runsLeft, jobPc, missed, job_event, now,
                   storageVars, batchVars, probeVars>>

\* FeedScheduler.start(): resolve, install the four jobs, start the scheduler
Start(answers) ==
    /\ ~running
    /\ registered = {}
    /\ DiscoverServices(answers)
    /\ registered' = JobIds
    /\ running' = TRUE
    /\ UNCHANGED <<parserVars, logged, configVars, inst, runsLeft, jobPc, missed, job_event, now, storageVars,
                   batchVars, probeVars>>

\* FeedScheduler.stop(): clear the flag and shut the scheduler down.  The
\* shutdown of the asyncio executor cancels the futures of the job runs in
\* progress; cancelling a batch run cancels the gather it waits in and with it
\* every feed task that has not returned, at the gate or in its parse call
\* (CancelledError is not an Exception, so no except clause of the task
\* catches it and no log entry is written).  The jobs stay in the job store.
Stop ==
    /\ running
    /\ running' = FALSE
    /\ inst' = [j \in JobIds |-> 0]
    /\ runsLeft' = [j \in JobIds |-> 0]
    /\ jobPc' = [j \in JobIds |-> "idle"]
    /\ task' = [f \in Feeds |-> IF task[f] \in {"pending", "parsing"} THEN "cancelled"
                                ELSE task[f]]
    /\ result' = [f \in Feeds |-> IF task[f] \in {"pending", "parsing"} THEN "cancelled"
                                  ELSE result[f]]
    /\ sem' = sem + Cardinality({f \in Feeds : task[f] = "parsing"})
    /\ UNCHANGED <<parserVars, logged, configVars, locatorVars, registered, missed, job_event, now, storageVars,
                   run, batch, started_at, url_used, emitted, summary, probeVars>>

\* The scheduler wakes up and finds k >= 1 run times of job j due.  With
\* coalescing they are rolled into one.  The job is submitted unless it is at
\* its instance limit, in which case the firing is skipped with a warning;
\* either way the job's next run time moves to the next natural trigger time.
Fire(j, k) ==
    /\ running
    /\ j \in registered
    /\ (j = "process_feeds" /\ inst[j] < MaxInstances(j)) => run < MaxRuns
    /\ IF inst[j] < MaxInstances(j)
       THEN /\ inst' = [inst EXCEPT ![j] = @ + 1]
            /\ runsLeft' = [runsLeft EXCEPT ![j] = @ + (IF Coalesce(j) THEN 1 ELSE k)]
            /\ jobPc' = [jobPc EXCEPT ![j] = IF @ = "idle" THEN "ready" ELSE @]
            /\ missed' = [missed EXCEPT ![j] = FALSE]
       ELSE /\ missed' = [missed EXCEPT ![j] = TRUE]
            /\ UNCHANGED <<inst, runsLeft, jobPc>>
    /\ UNCHANGED <<parserVars, logged, running, configVars, locatorVars, registered, job_event, now, storageVars,
                   batchVars, probeVars>>

\* The executor's done-callback of a submitted instance whose runs all returned
Release(j) ==
    /\ jobPc[j] = "ready"
    /\ runsLeft[j] = 0
    /\ inst' = [inst EXCEPT ![j] = @ - 1]
    /\ jobPc' = [jobPc EXCEPT ![j] = "idle"]
    /\ UNCHANGED <<parserVars, logged, running, configVars, locatorVars, registered, runsLeft, missed, job_event,
                   now, storageVars, batchVars, probeVars>>

\* the service_discovery job's body: one resolution pass
RunServiceDiscovery(answers) ==
    /\ jobPc["service_discovery"] = "ready"
    /\ runsLeft["service_discovery"] > 0
    /\ DiscoverServices(answers)
    /\ runsLeft' = [runsLeft EXCEPT !["service_discovery"] = @ - 1]
    /\ job_event' = [job_event EXCEPT
                        !["service_discovery"] = BodyEvent(\E s \in Services : last_pass'[s].raises)]
    /\ UNCHANGED <<parserVars, logged, running, configVars, registered, inst, jobPc, missed, now,
                   storageVars, batchVars, probeVars>>

\* wall-clock time passes
Tick ==
    /\ now < NowInit + MaxTicks
    /\ now' = now + 1
    /\ UNCHANGED <<parserVars, logged, running, configVars, locatorVars, jobVars, storageVars, batchVars, probeVars>>

(***************************************************************************)
(* Storage collaborator                                                    *)
(***************************************************************************)
ItemKeys == Feeds \X (1..MaxItems)

\* datetime.now().isoformat() as the storage engine keeps it in a timestamp column
StoredStamp(t) == ParseTimestamp(IsoFormat(t))

\* the filter lte('created_at', literal) on one row
StorageLte(created_at, literal) == created_at <= ParseTimestamp(literal)

\* the filter lt('created_at', literal) on one row
StorageLt(created_at, literal) == created_at < ParseTimestamp(literal)

\* table('feed_items').upsert(db_items).execute() for the items 1..n of feed f.
\* No on_conflict is passed, so conflicts are resolved on the primary key only:
\* that merges when the primary key is (feed_id, link); when it is the
\* generated id, which db_items do not carry, every row is inserted, and a
\* UNIQUE(feed_id, link) constraint then rejects the whole statement.
UpsertItems(f, n, ok) ==
    LET keys == {f} \X (1..n)
        stamp == StoredStamp(now)
        clash == \E k \in keys : feed_items[k] # <<>>
    IN  IF ~ok \/ (schema = "pk_id_unique_feed_link" /\ clash)
        THEN [raised |-> TRUE, rows |-> 0, table |-> feed_items]
        ELSE [raised |-> FALSE,
              rows |-> n,
              table |-> [k \in ItemKeys |->
                            IF k \notin keys THEN feed_items[k]
                            ELSE IF schema = "pk_feed_link" THEN <<stamp>>
                            ELSE Append(feed_items[k], stamp)]]

\* _store_feed_items(feed_id, items): the number of rows stored, 0 on any error
StoreFeedItems(f, n, ok) ==
    IF n = 0
    THEN [rows |-> 0, table |-> feed_items]
    ELSE LET u == UpsertItems(f, n, ok)
         IN  [rows |-> u.rows, table |-> u.table]

\* _update_feed_timestamp(feed_id): errors are logged and swallowed
UpdateFeedTimestamp(f, ok) ==
    IF ok THEN [last_updated EXCEPT ![f] = StoredStamp(now)] ELSE last_updated

NoMessage == [text |-> "", feed |-> 0]

\* the row _log_feed_processing hands to insert(); run and n tell the rows of
\* the table apart (they stand for the generated primary key)
LogRow(f, status, items_processed, error_message) ==
    [run |-> run,
     feed_id |-> f,
     n |-> Cardinality({r \in logs : r.run = run /\ r.feed_id = f}) + 1,
     status |-> status,
     items_processed |-> items_processed,
     error_message |-> error_message,
     processing_time_ms |-> (now - started_at[f]) * 86400000,
     created_at |-> StoredStamp(now)]

\* a recorder that keeps one row per feed: the insert replaces the feed's rows
LogFeedProcessingUpsert(row, ok) ==
    IF ok THEN {r \in logs : r.feed_id # row.feed_id} \cup {row} ELSE logs

\* _log_feed_processing(...): the table after the insert; errors are logged and swallowed
LogFeedProcessing(row, ok) ==
    IF ok THEN logs \cup {row} ELSE logs

(***************************************************************************)
(* Bounded batch processor                                                 *)
(***************************************************************************)
\* handlers of which the timeout one builds no message
ErrorMessageNoneOnTimeout(f, outcome) ==
    IF outcome = "timeout" THEN NoMessage
    ELSE IF outcome = "request_error" THEN [text |-> "Request error processing feed", feed |-> f]
    ELSE [text |-> "Error processing feed", feed |-> f]

\* handlers in the other order: except httpx.RequestError first, which also
\* catches a TimeoutException
ErrorMessageRequestFirst(f, outcome) ==
    IF outcome \in {"timeout", "request_error"}
    THEN [text |-> "Request error processing feed", feed |-> f]
    ELSE [text |-> "Error processing feed", feed |-> f]

\* the except clause a failed parse call lands in, as the message it builds
ErrorMessage(f, outcome) ==
    IF outcome = "timeout" THEN [text |-> "Timeout processing feed", feed |-> f]
    ELSE IF outcome = "request_error" THEN [text |-> "Request error processing feed", feed |-> f]
    ELSE [text |-> "Error processing feed", feed |-> f]

\* a body that updates the feed's timestamp in a finally clause
FeedTaskEffectStampsAlways(f, outcome, storeOk, stampOk, logOk) ==
    IF outcome = "ok"
    THEN LET st == StoreFeedItems(f, upstream[f], storeOk)
             row == LogRow(f, "success", st.rows, NoMessage)
         IN  [feed_items |-> st.table,
              last_updated |-> UpdateFeedTimestamp(f, stampOk),
              row |-> row,
              logs |-> LogFeedProcessing(row, logOk),
              returns |-> "True"]
    ELSE LET row == LogRow(f, "error", 0, ErrorMessage(f, outcome))
         IN  [feed_items |-> feed_items,
              last_updated |-> UpdateFeedTimestamp(f, stampOk),
              row |-> row,
              logs |-> LogFeedProcessing(row, logOk),
              returns |-> "False"]

\* The body of _process_single_feed after the parse call ended in `outcome`:
\* the storage writes it makes and the value it returns.
FeedTaskEffect(f, outcome, storeOk, stampOk, logOk) ==
    IF outcome = "ok"
    THEN LET st == StoreFeedItems(f, upstream[f], storeOk)
             row == LogRow(f, "success", st.rows, NoMessage)
         IN  [feed_items |-> st.table,
              last_updated |-> UpdateFeedTimestamp(f, stampOk),
              row |-> row,
              logs |-> LogFeedProcessing(row, logOk),
              returns |-> "True"]
    ELSE LET row == LogRow(f, "error", 0, ErrorMessage(f, outcome))
         IN  [feed_items |-> feed_items,
              last_updated |-> last_updated,
              row |-> row,
              logs |-> LogFeedProcessing(row, logOk),
              returns |-> "False"]

\* a read of the feeds table without the filter on active
GetActiveFeedsUnfiltered(ok) == IF ok THEN 1..MaxActive ELSE {}

\* _get_active_feeds(): the rows of feeds with active = true, [] when the
\* select raises
GetActiveFeeds(ok) == IF ok THEN active ELSE {}

LogLine(level, text) == [level |-> level, text |-> text]

\* what _process_all_feeds and _get_active_feeds log up to the decision taken
\* on the work set read
WorkSetLines(selectOk) ==
    IF ~supabase
    THEN <<LogLine("error", "Supabase client not configured")>>
    ELSE <<LogLine("info", "Starting scheduled feed processing")>>
         \o (IF selectOk THEN <<>> ELSE <<LogLine("error", "Error fetching active feeds")>>)
         \o (IF GetActiveFeeds(selectOk) = {}
             THEN <<LogLine("info", "No active feeds to process")>>
             ELSE <<LogLine("info", "Processing active feeds")>>)

\* the web API's update_feed(feed_id, {active: b}) on the feeds table
SetActive(f, b) ==
    /\ active' = IF b THEN active \cup {f} ELSE active \ {f}
    /\ active' # active
    /\ UNCHANGED <<parserVars, logged, running, supabase, max_concurrent_feeds, schema, upstream, plan,
                   locatorVars, jobVars, now, storageVars, batchVars, probeVars>>

\* a batch run without the early return on an empty work set
ProcessAllFeedsNoEarlyReturn(oks) ==
    /\ jobPc["process_feeds"] = "ready"
    /\ runsLeft["process_feeds"] > 0
    /\ runsLeft' = [runsLeft EXCEPT !["process_feeds"] = @ - 1]
    /\ \E selectOk \in oks :
        LET feeds == GetActiveFeeds(selectOk)
        IN  /\ logged' = WorkSetLines(selectOk)
            /\ IF ~supabase
               THEN /\ job_event' = [job_event EXCEPT !["process_feeds"] = "executed"]
                    /\ UNCHANGED <<jobPc, batchVars>>
               ELSE /\ jobPc' = [jobPc EXCEPT !["process_feeds"] = "active"]
                    /\ run' = run + 1
                    /\ batch' = feeds
                    /\ sem' = max_concurrent_feeds
                    /\ task' = [f \in Feeds |-> IF f \in feeds THEN "pending" ELSE "none"]
                    /\ started_at' = [f \in Feeds |-> NoStamp]
                    /\ url_used' = [f \in Feeds |-> NoUrl]
                    /\ result' = [f \in Feeds |-> "none"]
                    /\ emitted' = [f \in Feeds |-> {}]
                    /\ UNCHANGED <<summary, job_event>>
    /\ UNCHANGED <<parserVars, running, configVars, locatorVars, registered, inst, missed, now,
                   storageVars, probeVars>>

\* _process_all_feeds up to asyncio.gather: read the work set, create the gate
\* and one task per feed.  `oks` tells whether a storage call may fail ({TRUE}:
\* it succeeds, BOOLEAN: it succeeds or raises).
ProcessAllFeeds(oks) ==
    /\ jobPc["process_feeds"] = "ready"
    /\ runsLeft["process_feeds"] > 0
    /\ runsLeft' = [runsLeft EXCEPT !["process_feeds"] = @ - 1]
    /\ \E selectOk \in oks :
        LET feeds == GetActiveFeeds(selectOk)
        IN  /\ logged' = WorkSetLines(selectOk)
            /\ IF ~supabase \/ feeds = {}
               THEN /\ job_event' = [job_event EXCEPT !["process_feeds"] = "executed"]
                    /\ UNCHANGED <<jobPc, batchVars>>
               ELSE /\ jobPc' = [jobPc EXCEPT !["process_feeds"] = "active"]
                    /\ run' = run + 1
                    /\ batch' = feeds
                    /\ sem' = max_concurrent_feeds
                    /\ task' = [f \in Feeds |-> IF f \in feeds THEN "pending" ELSE "none"]
                    /\ started_at' = [f \in Feeds |-> NoStamp]
                    /\ url_used' = [f \in Feeds |-> NoUrl]
                    /\ result' = [f \in Feeds |-> "none"]
                    /\ emitted' = [f \in Feeds |-> {}]
                    /\ UNCHANGED <<summary, job_event>>
    /\ UNCHANGED <<parserVars, running, configVars, locatorVars, registered, inst, missed, now,
                   storageVars, probeVars>>

\* a gate that never closes
GateAlwaysOpen == TRUE

\* the gate lets a task in while a slot is free
GateOpen == sem > 0

\* async with semaphore: a feed task passes the gate and sends its parse call
Acquire(f) ==
    /\ task[f] = "pending"
    /\ GateOpen
    /\ sem' = sem - 1
    /\ task' = [task EXCEPT ![f] = "parsing"]
    /\ started_at' = [started_at EXCEPT ![f] = now]
    /\ url_used' = [url_used EXCEPT ![f] = feed_parser_url]
    /\ UNCHANGED <<parserVars, logged, running, configVars, locatorVars, jobVars, now, storageVars,
                   run, batch, result, emitted, summary, probeVars>>

\* a task whose recorder lets the exception of a failed insert through
CompleteTaskLogRaises(f, outcomes, oks) ==
    /\ task[f] = "parsing"
    /\ \E outcome \in outcomes, storeOk \in oks, stampOk \in oks, logOk \in oks :
        LET e == FeedTaskEffect(f, outcome, storeOk, stampOk, logOk)
        IN  /\ feed_items' = e.feed_items
            /\ last_updated' = e.last_updated
            /\ logs' = e.logs
            /\ emitted' = [emitted EXCEPT ![f] = @ \cup {[row |-> e.row, stored |-> logOk]}]
            /\ result' = [result EXCEPT ![f] = IF logOk THEN e.returns ELSE "Exception"]
    /\ task' = [task EXCEPT ![f] = "done"]
    /\ sem' = sem + 1
    /\ UNCHANGED <<parserVars, logged, running, configVars, locatorVars, jobVars, now,
                   run, batch, started_at, url_used, summary, probeVars>>

\* The parse call of a feed task ends and the task runs to its return: the
\* storage client is synchronous, so the writes, the log entry and the release
\* of the gate follow without another task running in between.
CompleteTask(f, outcomes, oks) ==
    /\ task[f] = "parsing"
    /\ \E outcome \in outcomes, storeOk \in oks, stampOk \in oks, logOk \in oks :
        LET e == FeedTaskEffect(f, outcome, storeOk, stampOk, logOk)
        IN  /\ feed_items' = e.feed_items
            /\ last_updated' = e.last_updated
            /\ logs' = e.logs
            /\ emitted' = [emitted EXCEPT ![f] = @ \cup {[row |-> e.row, stored |-> logOk]}]
            /\ result' = [result EXCEPT ![f] = e.returns]
    /\ task' = [task EXCEPT ![f] = "done"]
    /\ sem' = sem + 1
    /\ UNCHANGED <<parserVars, logged, running, configVars, locatorVars, jobVars, now,
                   run, batch, started_at, url_used, summary, probeVars>>

\* a task whose parse call shares one connection with the other tasks: it
\* ends in a transport error when another task is in its parse call
CompleteTaskContended(f) ==
    LET others == {g \in Feeds : g # f /\ task[g] = "parsing"}
        e == FeedTaskEffect(f, IF others # {} THEN "request_error" ELSE plan[f].parse,
                            plan[f].store, plan[f].stamp, plan[f].log)
    IN  /\ CompleteTask(f, ParseOutcomes, BOOLEAN)
        /\ feed_items' = e.feed_items
        /\ last_updated' = e.last_updated
        /\ logs' = e.logs
        /\ emitted' = [emitted EXCEPT ![f] = @ \cup {[row |-> e.row, stored |-> plan[f].log]}]
        /\ result' = [result EXCEPT ![f] = e.returns]

\* CompleteTask in an environment whose answers to the calls of each feed's
\* task are fixed beforehand: the parse call of feed f ends as plan[f].parse
\* says and its storage calls as plan[f].store, .stamp and .log say
CompleteTaskAsPlanned(f) ==
    LET e == FeedTaskEffect(f, plan[f].parse, plan[f].store, plan[f].stamp, plan[f].log)
    IN  /\ CompleteTask(f, ParseOutcomes, BOOLEAN)
        /\ feed_items' = e.feed_items
        /\ last_updated' = e.last_updated
        /\ logs' = e.logs
        /\ emitted' = [emitted EXCEPT ![f] = @ \cup {[row |-> e.row, stored |-> plan[f].log]}]
        /\ result' = [result EXCEPT ![f] = e.returns]

\* a task that takes its slot with acquire() and releases it on its return
\* paths only: the KeyError leaves the coroutine with the slot
RaiseBeforeTryKeepsSlot(f) ==
    /\ task[f] = "pending"
    /\ GateOpen
    /\ sem' = sem - 1
    /\ task' = [task EXCEPT ![f] = "done"]
    /\ result' = [result EXCEPT ![f] = "KeyError"]
    /\ UNCHANGED <<parserVars, logged, running, configVars, locatorVars, jobVars, now, storageVars,
                   run, batch, started_at, url_used, emitted, summary, probeVars>>

\* A feed task passes the gate and raises before its try block: the row read
\* from the feeds table lacks one of the columns id, url, name, and the
\* KeyError leaves the coroutine.  The async with releases the gate on the way
\* out, no except clause runs, and gather collects the exception object.
RaiseBeforeTry(f) ==
    /\ task[f] = "pending"
    /\ GateOpen
    /\ task' = [task EXCEPT ![f] = "done"]
    /\ result' = [result EXCEPT ![f] = "KeyError"]
    /\ UNCHANGED <<parserVars, logged, running, configVars, locatorVars, jobVars, now, storageVars,
                   run, batch, sem, started_at, url_used, emitted, summary, probeVars>>

\* a count that takes every resolved task for a success
BatchSummaryCountsResolved ==
    LET successful == Cardinality({f \in batch : result[f] # "none"})
    IN  [run |-> run,
         total |-> Cardinality(batch),
         successful |-> successful,
         failed |-> Cardinality(batch) - successful]

\* a count that takes only the tasks that returned False for failed
BatchSummaryDropsRaised ==
    [run |-> run,
     total |-> Cardinality(batch),
     successful |-> Cardinality({f \in batch : result[f] = "True"}),
     failed |-> Cardinality({f \in batch : result[f] = "False"})]

\* what _process_all_feeds counts once gather returned
BatchSummary ==
    LET successful == Cardinality({f \in batch : result[f] = "True"})
    IN  [run |-> run,
         total |-> Cardinality(batch),
         successful |-> successful,
         failed |-> Cardinality(batch) - successful]

\* a join that returns at the first failed task (gather without return_exceptions
\* around tasks that raise)
BatchJoinFailFast ==
    /\ jobPc["process_feeds"] = "active"
    /\ (\A f \in batch : task[f] = "done") \/ (\E f \in batch : result[f] = "False")
    /\ summary' = Append(summary, BatchSummary)
    /\ jobPc' = [jobPc EXCEPT !["process_feeds"] = "ready"]
    /\ job_event' = [job_event EXCEPT !["process_feeds"] = "executed"]
    /\ UNCHANGED <<parserVars, logged, running, configVars, locatorVars, registered, inst, runsLeft, missed, now,
                   storageVars, run, batch, sem, task, started_at, url_used, result, emitted,
                   probeVars>>

\* a body that counts and logs the summary without awaiting gather
BatchJoinWithoutAwait ==
    /\ jobPc["process_feeds"] = "active"
    /\ summary' = Append(summary, BatchSummary)
    /\ jobPc' = [jobPc EXCEPT !["process_feeds"] = "ready"]
    /\ job_event' = [job_event EXCEPT !["process_feeds"] = "executed"]
    /\ UNCHANGED <<parserVars, logged, running, configVars, locatorVars, registered, inst, runsLeft, missed, now,
                   storageVars, run, batch, sem, task, started_at, url_used, result, emitted,
                   probeVars>>

\* asyncio.gather returns: every task resolved; count and log the summary
BatchJoin ==
    /\ jobPc["process_feeds"] = "active"
    /\ \A f \in batch : task[f] = "done"
    /\ summary' = Append(summary, BatchSummary)
    /\ jobPc' = [jobPc EXCEPT !["process_feeds"] = "ready"]
    /\ job_event' = [job_event EXCEPT !["process_feeds"] = "executed"]
    /\ UNCHANGED <<parserVars, logged, running, configVars, locatorVars, registered, inst, runsLeft, missed, now,
                   storageVars, run, batch, sem, task, started_at, url_used, result, emitted,
                   probeVars>>

(***************************************************************************)
(* Retention sweeper                                                       *)
(***************************************************************************)
\* the rows of each table a delete().lt('created_at', literal) leaves
SweepItems(literal) ==
    [k \in ItemKeys |-> SelectSeq(feed_items[k], LAMBDA c : ~StorageLt(c, literal))]

\* a delete on the log table that removes nothing
SweepLogsKeepsAll(literal) == logs

SweepLogs(literal) == {r \in logs : ~StorageLt(r.created_at, literal)}

\* number of rows of feed_items
ItemCount(table) ==
    LET RECURSIVE Sum(_)
        Sum(K) == IF K = {} THEN 0
                  ELSE LET k == CHOOSE x \in K : TRUE IN Len(table[k]) + Sum(K \ {k})
    IN  Sum(ItemKeys)

NoReport == [items |-> 0 - 1, logs |-> 0 - 1]

\* _cleanup_old_items: the body of the cleanup_old_items job.  An exception of
\* the first delete skips the second; each table's deleted count is logged
\* after its delete returned.
CleanupOldItems(oks) ==
    /\ jobPc["cleanup_old_items"] = "ready"
    /\ runsLeft["cleanup_old_items"] > 0
    /\ runsLeft' = [runsLeft EXCEPT !["cleanup_old_items"] = @ - 1]
    /\ \E itemsOk \in oks, logsOk \in oks :
        LET cutoff_date == now - RetentionDays
            items == SweepItems(IsoFormat(cutoff_date))
            rows == SweepLogs(IsoFormat(cutoff_date))
        IN  IF ~supabase \/ ~itemsOk
            THEN /\ sweep_report' = NoReport
                 /\ job_event' = [job_event EXCEPT !["cleanup_old_items"] = BodyEvent(TRUE)]
                 /\ UNCHANGED <<feed_items, logs>>
            ELSE /\ job_event' = [job_event EXCEPT !["cleanup_old_items"] = BodyEvent(~logsOk)]
                 /\ feed_items' = items
                 /\ logs' = IF logsOk THEN rows ELSE logs
                 /\ sweep_report' =
                        [items |-> ItemCount(feed_items) - ItemCount(items),
                         logs |-> IF logsOk THEN Cardinality(logs) - Cardinality(rows)
                                  ELSE 0 - 1]
    /\ UNCHANGED <<parserVars, logged, running, configVars, locatorVars, registered, inst, jobPc, missed, now,
                   last_updated, batchVars, health>>

(***************************************************************************)
(* Health check                                                            *)
(***************************************************************************)
NoHealth == [parser |-> "none", db |-> "none"]

\* _health_check up to the GET of the parser's /health
HealthCheckBegin ==
    /\ jobPc["health_check"] = "ready"
    /\ runsLeft["health_check"] > 0
    /\ runsLeft' = [runsLeft EXCEPT !["health_check"] = @ - 1]
    /\ jobPc' = [jobPc EXCEPT !["health_check"] = "active"]
    /\ health' = NoHealth
    /\ UNCHANGED <<parserVars, logged, running, configVars, locatorVars, registered, inst, missed, job_event, now,
                   storageVars, batchVars, sweep_report>>

\* the GET returns or raises; the storage probe follows in the same try block
HealthCheckEnd(oks) ==
    /\ jobPc["health_check"] = "active"
    /\ jobPc' = [jobPc EXCEPT !["health_check"] = "ready"]
    /\ \E resp \in {"200", "non200", "exception"}, dbOk \in oks :
        /\ health' = [parser |-> resp,
                      db |-> IF resp = "exception" \/ ~supabase THEN "skipped"
                             ELSE IF dbOk THEN "ok" ELSE "failed"]
        /\ job_event' = [job_event EXCEPT
                            !["health_check"] = BodyEvent(health'.parser = "exception"
                                                          \/ health'.db = "failed")]
    /\ UNCHANGED <<parserVars, logged, running, configVars, locatorVars, registered, inst, runsLeft, missed, now,
                   storageVars, batchVars, sweep_report>>

(***************************************************************************)
(* Parser service (src/services/feed-parser/main.py): POST /parse-batch    *)
(***************************************************************************)
\* the feeds a request may name: one that parses into an item, one whose
\* document is not a feed (feedparser flags it and returns no entries), and
\* one on which parse_feed raises
ParserUrls == {"https://a/feed", "https://b/not-a-feed", "https://c/raises"}

\* FeedParser.parse_feed(url): the parsed feed as its number of items, or the
\* HTTPException(500) its except clause raises.  feedparser.parse does not
\* raise on a document it cannot fetch or parse: it sets bozo, which
\* parse_feed logs as a warning before it goes on with the empty entries.
ParseFeed(url) ==
    IF url = "https://c/raises"
    THEN [raised |-> TRUE, bozo |-> FALSE, status_code |-> 500,
          detail |-> "Failed to parse feed", items |-> 0]
    ELSE [raised |-> FALSE, bozo |-> (url = "https://b/not-a-feed"), status_code |-> 200,
          detail |-> "", items |-> IF url = "https://a/feed" THEN 1 ELSE 0]

NoData == 0 - 1

\* the entry one pass of the handler's loop appends for a URL
BatchEntry(url) ==
    LET r == ParseFeed(url)
    IN  IF r.raised
        THEN [url |-> url, success |-> FALSE, data |-> NoData, error |-> r.detail]
        ELSE [url |-> url, success |-> TRUE, data |-> r.items, error |-> ""]

NoResponse == [status_code |-> 0, results |-> <<>>]

InitParser ==
    /\ parser_pc = "idle"
    /\ parser_request = <<>>
    /\ parser_results = <<>>
    /\ parser_response = NoResponse

\* a valid request body arrives: a list of feed URLs
ReceiveBatch(feed_urls) ==
    /\ parser_pc \in {"idle", "responded"}
    /\ parser_pc' = "parsing"
    /\ parser_request' = feed_urls
    /\ parser_results' = <<>>
    /\ parser_response' = NoResponse
    /\ UNCHANGED orchestratorVars

\* a pass of the loop in which an exception of parse_feed ends the request
ParseNextAbortsOnError ==
    /\ parser_pc = "parsing"
    /\ Len(parser_results) < Len(parser_request)
    /\ LET url == parser_request[Len(parser_results) + 1]
           r == ParseFeed(url)
       IN  IF r.raised
           THEN /\ parser_pc' = "responded"
                /\ parser_response' = [status_code |-> r.status_code, results |-> <<>>]
                /\ UNCHANGED parser_results
           ELSE /\ parser_results' = Append(parser_results, BatchEntry(url))
                /\ UNCHANGED <<parser_pc, parser_response>>
    /\ UNCHANGED <<orchestratorVars, parser_request>>

\* one pass of the loop over feed_urls: parse the next URL and append its entry
ParseNext ==
    /\ parser_pc = "parsing"
    /\ Len(parser_results) < Len(parser_request)
    /\ parser_results' =
            Append(parser_results, BatchEntry(parser_request[Len(parser_results) + 1]))
    /\ UNCHANGED <<orchestratorVars, parser_pc, parser_request, parser_response>>

\* the loop is over: return {"results": results}
RespondBatch ==
    /\ parser_pc = "parsing"
    /\ Len(parser_results) = Len(parser_request)
    /\ parser_pc' = "responded"
    /\ parser_response' = [status_code |-> 200, results |-> parser_results]
    /\ UNCHANGED <<orchestratorVars, parser_request, parser_results>>

(***************************************************************************)
(* Initial states and specifications                                       *)
(***************************************************************************)
\* the object after FeedScheduler(), before start()
InitScheduler ==
    /\ running = FALSE
    /\ feed_parser_url = NoUrl
    /\ web_api_url = NoUrl
    /\ last_pass = [s \in Services |-> NotQueried]
    /\ registered = {}
    /\ inst = [j \in JobIds |-> 0]
    /\ runsLeft = [j \in JobIds |-> 0]
    /\ jobPc = [j \in JobIds |-> "idle"]
    /\ missed = [j \in JobIds |-> FALSE]
    /\ job_event = [j \in JobIds |-> "none"]
    /\ now = NowInit
    /\ batch = {}
    /\ sem = 0
    /\ task = [f \in Feeds |-> "none"]
    /\ started_at = [f \in Feeds |-> NoStamp]
    /\ url_used = [f \in Feeds |-> NoUrl]
    /\ result = [f \in Feeds |-> "none"]
    /\ emitted = [f \in Feeds |-> {}]
    /\ summary = <<>>
    /\ logged = <<>>
    /\ sweep_report = NoReport
    /\ health = NoHealth
    /\ InitParser

\* empty tables, as after installation
InitEmptyStorage ==
    /\ last_updated = [f \in Feeds |-> NoStamp]
    /\ feed_items = [k \in ItemKeys |-> <<>>]
    /\ logs = {}

\* the active sets explored: feeds are interchangeable, so the active ones are
\* taken to be the first ones; the feeds beyond MaxActive are never active
WorkSets == {1..n : n \in 0..MaxActive}

\* the upstream documents explored, as their number of items
Documents ==
    {[f \in Feeds |-> IF f <= MaxActive THEN u[f] ELSE 0] :
        u \in [1..MaxActive -> 0..MaxUpstream]}

\* a storage call that may succeed or raise
MayFail == BOOLEAN

\* the answers of an environment in which every call of a feed task succeeds
NoPlanEntry == [parse |-> "ok", store |-> TRUE, stamp |-> TRUE, log |-> TRUE]

NoPlan == [f \in Feeds |-> NoPlanEntry]

\* every configuration within the bounds; feeds are interchangeable, so the
\* active ones are taken to be the first ones
InitAnyConfig ==
    /\ supabase \in BOOLEAN
    /\ max_concurrent_feeds \in 1..MaxCap
    /\ schema \in Schemas
    /\ upstream \in Documents
    /\ active \in WorkSets
    /\ plan = NoPlan

Init == InitScheduler /\ InitEmptyStorage /\ InitAnyConfig /\ run = 0

\* the whole service
Next ==
    \/ Start(RegistryAnswers)
    \/ Stop
    \/ \E f \in Feeds, b \in BOOLEAN : SetActive(f, b)
    \/ Tick
    \/ \E j \in JobIds, k \in 1..MaxDue : Fire(j, k)
    \/ \E j \in JobIds : Release(j)
    \/ RunServiceDiscovery(RegistryAnswers)
    \/ ProcessAllFeeds(MayFail)
    \/ \E f \in Feeds : Acquire(f)
    \/ \E f \in Feeds : RaiseBeforeTry(f)
    \/ \E f \in Feeds : CompleteTask(f, ParseOutcomes, MayFail)
    \/ BatchJoin
    \/ CleanupOldItems(MayFail)
    \/ HealthCheckBegin
    \/ HealthCheckEnd(MayFail)

Spec == Init /\ [][Next]_vars

(***************************************************************************)
(* Service locator on its own: start() and the service_discovery job       *)
(* against a registry that may answer anything.  The locator reads no      *)
(* configuration besides the fallback URLs, so the rest is kept quiet.     *)
(***************************************************************************)
InitNoFeeds ==
    /\ supabase = TRUE
    /\ max_concurrent_feeds = MaxCap
    /\ schema = "pk_id"
    /\ upstream = [f \in Feeds |-> 0]
    /\ active = {}
    /\ plan = NoPlan
    /\ run = 0

InitLocator == InitScheduler /\ InitEmptyStorage /\ InitNoFeeds

NextLocator ==
    \/ Start(RegistryAnswers)
    \/ \E k \in 1..MaxDue : Fire("service_discovery", k)
    \/ RunServiceDiscovery(RegistryAnswers)
    \/ Release("service_discovery")

SpecLocator == InitLocator /\ [][NextLocator]_vars

CachedUrl(s) == IF s = "feed-parser" THEN feed_parser_url ELSE web_api_url

FallbackUrl(s) == IF s = "feed-parser" THEN FallbackParserUrl ELSE FallbackWebApiUrl

\* the lookup of service s in the last pass returned no instance, or raised
LookupCameBackEmpty(s) ==
    /\ last_pass[s].queried
    /\ last_pass[s].raises \/ Len(last_pass[s].services) = 0

\* the lookup of service s in the last pass returned at least one instance
LookupFoundInstances(s) ==
    /\ last_pass[s].queried
    /\ ~last_pass[s].raises
    /\ Len(last_pass[s].services) > 0

\* C5: for each service, when its registry lookup returned no healthy instance
\* or raised, the URL cached after the pass is the static fallback of that
\* service, and the pass returned to its caller: start() went on to install the
\* jobs and set running.
C5_FallbackOnEmptyOrRaise ==
    /\ \A s \in Services : LookupCameBackEmpty(s) => CachedUrl(s) = FallbackUrl(s)
    /\ last_pass["feed-parser"].queried => (running /\ registered = JobIds)

\* a pass in which the feed-parser lookup returned an empty list and the
\* web-api lookup raised, run by the refresh job
C5_Witness ==
    /\ last_pass["feed-parser"].queried
    /\ ~last_pass["feed-parser"].raises
    /\ Len(last_pass["feed-parser"].services) = 0
    /\ last_pass["web-api"].raises
    /\ feed_parser_url = FallbackParserUrl
    /\ web_api_url = FallbackWebApiUrl
    /\ missed["service_discovery"]

\* C6: for each service independently, when its lookup returned one or more
\* healthy instances, the URL cached after the pass is that of the first
\* instance in registry order, whatever happened to the other lookup.
C6_FirstInstancePerService ==
    \A s \in Services :
        LookupFoundInstances(s) => CachedUrl(s) = FirstInstanceUrl(last_pass[s].services)

(***************************************************************************)
(* The four jobs under the scheduler: every trigger may fire at any time,  *)
(* also while the job's previous run is still active.  The run of a job     *)
(* body does not depend on what its calls return, so the environment is    *)
(* kept small: the registry is down, storage calls succeed, one feed is    *)
(* subscribed and its parse call succeeds or times out.                    *)
(***************************************************************************)
RegistryDown == {[queried |-> TRUE, raises |-> TRUE, services |-> <<>>]}

Succeeds == {TRUE}

InitOneFeed ==
    /\ supabase = TRUE
    /\ max_concurrent_feeds = MaxCap
    /\ schema = "pk_id"
    /\ upstream = [f \in Feeds |-> 0]
    /\ active = {1}
    /\ plan = NoPlan
    /\ run = 0

InitSched == InitScheduler /\ InitEmptyStorage /\ InitOneFeed

NextSched ==
    \/ Start(RegistryDown)
    \/ \E j \in JobIds, k \in 1..MaxDue : Fire(j, k)
    \/ \E j \in JobIds : Release(j)
    \/ RunServiceDiscovery(RegistryDown)
    \/ ProcessAllFeeds(Succeeds)
    \/ \E f \in Feeds : Acquire(f)
    \/ \E f \in Feeds : CompleteTask(f, {"ok", "timeout"}, Succeeds)
    \/ BatchJoin
    \/ CleanupOldItems(Succeeds)
    \/ HealthCheckBegin
    \/ HealthCheckEnd(Succeeds)

SpecSched == InitSched /\ [][NextSched]_vars

\* C3: for each of the four jobs at most one execution is in flight: the
\* executor never holds more than one unfinished instance of a job id, also
\* when its trigger fires while the previous run is still active.
C3_SingleFlight ==
    \A j \in JobIds : inst[j] <= 1 /\ (jobPc[j] = "idle" <=> inst[j] = 0)

\* every job has a run in flight and has had a trigger fire during it
C3_Witness ==
    \A j \in JobIds : inst[j] = 1 /\ missed[j]

\* C4: firings of process_feeds that elapse during a run are not queued.  A
\* submission carries one execution however many run times were due, a
\* skipped firing adds none, and once the body has started nothing is left to
\* execute: when it returns the job goes idle until the next trigger.
C4_NoCatchUpRuns ==
    /\ runsLeft["process_feeds"] <= 1
    /\ jobPc["process_feeds"] # "ready" => runsLeft["process_feeds"] = 0
    /\ jobPc["process_feeds"] = "idle" => inst["process_feeds"] = 0

\* a firing was skipped during a run; the run has ended with its summary, the
\* job is idle and no execution is pending
C4_Witness ==
    /\ missed["process_feeds"]
    /\ jobPc["process_feeds"] = "idle"
    /\ runsLeft["process_feeds"] = 0
    /\ Len(summary) = 1

(***************************************************************************)
(* One batch run in every configuration, with every outcome of the parse   *)
(* calls and of the storage calls, while the clock runs.  MaxRuns - 1 runs *)
(* lie behind the service; the run explored is the last one.               *)
(***************************************************************************)
InitBatch ==
    /\ InitScheduler
    /\ InitEmptyStorage
    /\ InitAnyConfig
    /\ run = MaxRuns - 1

NextBatch ==
    \/ Start(RegistryDown)
    \/ Tick
    \/ \E k \in 1..MaxDue : Fire("process_feeds", k)
    \/ Release("process_feeds")
    \/ ProcessAllFeeds(MayFail)
    \/ \E f \in Feeds : Acquire(f)
    \/ \E f \in Feeds : CompleteTask(f, ParseOutcomes, MayFail)
    \/ BatchJoin

SpecBatch == InitBatch /\ [][NextBatch]_vars

\* the feed tasks between acquiring the gate and releasing it
InFlight == {f \in Feeds : task[f] = "parsing"}

\* gather has returned for the current run and its summary is logged
Joined == Len(summary) > 0 /\ summary[Len(summary)].run = run

\* the rows of the log table the current run wrote for feed f
RunRows(f) == {r \in logs : r.run = run /\ r.feed_id = f}

\* C1: in every state of a batch run the number of feed tasks between
\* acquiring the admission gate and releasing it is at most
\* max_concurrent_feeds.
C1_InFlightBounded ==
    /\ Cardinality(InFlight) <= max_concurrent_feeds
    /\ jobPc["process_feeds"] = "active" => sem = max_concurrent_feeds - Cardinality(InFlight)

\* the gate is full and a task is waiting at it
C1_Witness ==
    /\ Cardinality(InFlight) = max_concurrent_feeds
    /\ \E f \in Feeds : task[f] = "pending"

\* C2: when a batch run has returned, then for all distinct feeds A and B of
\* the run: if A failed (on any failure path), B's parse call was still sent
\* and B's task handed its own log entry to the recorder, which is in the
\* table unless B's own insert failed.
C2_FailureIsolated ==
    Joined =>
        \A A \in batch, B \in batch :
            (A # B /\ result[A] = "False") =>
                /\ task[B] = "done"
                /\ url_used[B] # NoUrl
                /\ \E e \in emitted[B] :
                    /\ e.row.feed_id = B
                    /\ e.row.run = run
                    /\ e.stored => e.row \in RunRows(B)

\* a run with a failed feed and a successful one, whose success entry is in the table
C2_Witness ==
    /\ Joined
    /\ \E A \in batch, B \in batch :
        /\ A # B
        /\ result[A] = "False"
        /\ result[B] = "True"
        /\ \E r \in RunRows(B) : r.status = "success"

ErrorTexts ==
    {"Timeout processing feed", "Request error processing feed", "Error processing feed"}

\* C7: on every failure path of a feed task (timeout, transport error, any
\* other exception) the task emits a log entry for its feed with status error,
\* a non-empty classified message, items_processed 0 and the elapsed time; so
\* every feed counted as failed has an error entry emitted, and the entry is
\* in the table exactly when its insert succeeded.
C7_FailureEmitsErrorEntry ==
    \A f \in batch :
        result[f] = "False" =>
            \E e \in emitted[f] :
                /\ e.row.feed_id = f
                /\ e.row.status = "error"
                /\ e.row.error_message.text # ""
                /\ e.row.error_message.text \in ErrorTexts
                /\ e.row.error_message.feed = f
                /\ e.row.items_processed = 0
                /\ e.row.processing_time_ms = (e.row.created_at - started_at[f]) * 86400000
                /\ e.stored <=> e.row \in RunRows(f)

\* a feed whose parse call timed out after a day, with its entry in the table
C7_Witness ==
    \E f \in batch :
        /\ result[f] = "False"
        /\ \E r \in RunRows(f) :
            /\ r.status = "error"
            /\ r.error_message.text = "Timeout processing feed"
            /\ r.processing_time_ms > 0

(***************************************************************************)
(* The batch run repeated over the same upstream documents, for every      *)
(* conflict rule the feed_items table may have.  Storage calls succeed.    *)
(***************************************************************************)
InitRerun ==
    /\ InitScheduler
    /\ InitEmptyStorage
    /\ supabase = TRUE
    /\ max_concurrent_feeds = MaxCap
    /\ schema \in Schemas
    /\ upstream \in Documents
    /\ active \in WorkSets
    /\ plan = NoPlan
    /\ run = 0

NextRerun ==
    \/ Start(RegistryDown)
    \/ \E k \in 1..MaxDue : Fire("process_feeds", k)
    \/ Release("process_feeds")
    \/ ProcessAllFeeds(Succeeds)
    \/ \E f \in Feeds : Acquire(f)
    \/ \E f \in Feeds : CompleteTask(f, {"ok", "timeout"}, Succeeds)
    \/ BatchJoin

SpecRerun == InitRerun /\ [][NextRerun]_vars

\* C8: however often the batch is re-run over identical upstream content,
\* feed_items holds at most one row per (feed_id, link), and exactly one for
\* every item of a feed once a run has stored that feed.
C8_OneRowPerFeedLink ==
    /\ \A k \in ItemKeys : Len(feed_items[k]) <= 1
    /\ \A f \in batch :
        result[f] = "True" => \A l \in 1..upstream[f] : Len(feed_items[<<f, l>>]) = 1

(***************************************************************************)
(* The retention sweep over tables that earlier runs filled: rows created  *)
(* around RetentionDays before the sweeps explored.                        *)
(***************************************************************************)
OldStamps == (NowInit - RetentionDays) .. (NowInit - RetentionDays + MaxTicks + 1)

\* feed_items as earlier runs left it: at most one row per explored key
OldTables ==
    LET keys == (1..MaxActive) \X (1..MaxUpstream)
    IN  {[k \in ItemKeys |-> IF k \in keys THEN t[k] ELSE <<>>] :
            t \in [keys -> {<<>>} \cup {<<c>> : c \in OldStamps}]}

\* a log row an earlier run left behind
OldLog(t) ==
    [run |-> 0, feed_id |-> 1, n |-> t + 1, status |-> "success", items_processed |-> 0,
     error_message |-> NoMessage, processing_time_ms |-> 0, created_at |-> t]

InitSweep ==
    /\ InitScheduler
    /\ InitNoFeeds
    /\ last_updated = [f \in Feeds |-> NoStamp]
    /\ feed_items \in OldTables
    /\ logs \in SUBSET {OldLog(t) : t \in OldStamps}

NextSweep ==
    \/ Start(RegistryDown)
    \/ Tick
    \/ \E k \in 1..MaxDue : Fire("cleanup_old_items", k)
    \/ CleanupOldItems(MayFail)
    \/ Release("cleanup_old_items")

SpecSweep == InitSweep /\ [][NextSweep]_vars

\* C9: a sweep whose storage calls succeed leaves, in feed_items and in
\* feed_processing_logs, exactly the rows whose created_at is not before
\* now - RetentionDays: it deletes every row strictly older than the cutoff,
\* keeps every row at or after it, and reports the number of rows deleted.
C9_SweepDeletesExactlyOlder ==
    [][CleanupOldItems(Succeeds) =>
        LET cutoff == now - RetentionDays
            keptItems == [k \in ItemKeys |-> SelectSeq(feed_items[k], LAMBDA c : c >= cutoff)]
            keptLogs == {r \in logs : r.created_at >= cutoff}
        IN  /\ feed_items' = keptItems
            /\ logs' = keptLogs
            /\ sweep_report'.items = ItemCount(feed_items) - ItemCount(keptItems)
            /\ sweep_report'.logs = Cardinality(logs \ keptLogs)]_vars

\* a sweep deleted one item and one log entry; rows created 89 days ago are
\* still there, and so is a log entry created exactly 90 days ago
C9_Witness ==
    /\ sweep_report.items = 1
    /\ sweep_report.logs = 1
    /\ \E k \in ItemKeys : feed_items[k] = <<now - RetentionDays + 1>>
    /\ \E r \in logs : r.created_at = now - RetentionDays + 1
    /\ \E r \in logs : r.created_at = now - RetentionDays

(***************************************************************************)
(* One batch run next to the retention sweep, over a log table earlier     *)
(* runs wrote to.  Parse calls end in every outcome and storage calls may  *)
(* raise.                                                                  *)
(***************************************************************************)
InitLogs ==
    /\ InitScheduler
    /\ supabase = TRUE
    /\ max_concurrent_feeds = MaxCap
    /\ schema = "pk_id"
    /\ upstream = [f \in Feeds |-> 0]
    /\ active \in WorkSets
    /\ plan = NoPlan
    /\ run = MaxRuns - 1
    /\ last_updated = [f \in Feeds |-> NoStamp]
    /\ feed_items = [k \in ItemKeys |-> <<>>]
    /\ logs \in {{}, {OldLog(t) : t \in OldStamps}}

NextLogs ==
    \/ Start(RegistryDown)
    \/ Tick
    \/ \E j \in {"process_feeds", "cleanup_old_items"}, k \in 1..MaxDue : Fire(j, k)
    \/ \E j \in {"process_feeds", "cleanup_old_items"} : Release(j)
    \/ ProcessAllFeeds(MayFail)
    \/ \E f \in Feeds : Acquire(f)
    \/ \E f \in Feeds : CompleteTask(f, ParseOutcomes, MayFail)
    \/ BatchJoin
    \/ CleanupOldItems(MayFail)

SpecLogs == InitLogs /\ [][NextLogs]_vars

\* two rows of the log table are the same entry
SameEntry(r, q) == r.run = q.run /\ r.feed_id = q.feed_id /\ r.n = q.n

\* a step leaves every written entry as it is, or removes it in a sweep;
\* the rows it adds are new entries
LogsOnlyAppendedOrSwept ==
    /\ \A r \in logs :
        \/ r \in logs'
        \/ /\ CleanupOldItems(MayFail)
           /\ \A q \in logs' : ~SameEntry(r, q)
    /\ \A q \in logs' \ logs : \A r \in logs : ~SameEntry(r, q)

\* C10 as stated: once a batch run has joined, the log table holds exactly
\* one entry of that run for every feed read at its start, and no step
\* changes a written entry (entries are only appended, or removed by the
\* retention sweep).
C10_ExactlyOneEntryPerFeed ==
    [][/\ Joined' => \A f \in batch' : Cardinality(RunRows(f)') = 1
       /\ LogsOnlyAppendedOrSwept]_vars

\* C10: every feed read at the start of a batch run has exactly one entry
\* handed to the recorder in that run; the log table holds that entry when
\* the insert succeeded and no entry of the run for the feed when the insert
\* raised (the error is logged and swallowed), and never two; no step changes
\* a written entry (entries are only appended, or removed by the retention
\* sweep).
C10_AtMostOneEntryAppendOnly ==
    [][/\ \A f \in Feeds : Cardinality(RunRows(f)') <= 1
       /\ Joined' =>
            \A f \in batch' :
                /\ Cardinality(emitted'[f]) = 1
                /\ \A e \in emitted'[f] : RunRows(f)' = IF e.stored THEN {e.row} ELSE {}
       /\ LogsOnlyAppendedOrSwept]_vars

\* a joined run of two feeds: one entry was written, the other insert raised,
\* and the sweep has removed an entry of an earlier run while a younger one
\* is still in the table unchanged
C10_Witness ==
    /\ Joined
    /\ \E f \in batch, g \in batch :
        /\ Cardinality(RunRows(f)) = 1
        /\ RunRows(g) = {}
        /\ \E e \in emitted[g] : ~e.stored
    /\ sweep_report # NoReport
    /\ sweep_report.logs >= 1
    /\ \E t \in OldStamps : OldLog(t) \in logs

(***************************************************************************)
(* The batch run of three active feeds through a gate of two: the parse    *)
(* call of feed 1 returns five items, that of feed 2 times out and that of *)
(* feed 3 fails in transport.  Storage calls succeed.                      *)
(***************************************************************************)
ScenarioOutcome(f) ==
    IF f = 1 THEN "ok" ELSE IF f = 2 THEN "timeout" ELSE "request_error"

InitScenario ==
    /\ InitScheduler
    /\ InitEmptyStorage
    /\ supabase = TRUE
    /\ max_concurrent_feeds = 2
    /\ schema \in Schemas
    /\ upstream = [f \in Feeds |-> IF f = 1 THEN 5 ELSE 0]
    /\ active = {1, 2, 3}
    /\ plan = NoPlan
    /\ run = MaxRuns - 1

NextScenario ==
    \/ Start(RegistryAnswers)
    \/ Tick
    \/ \E k \in 1..MaxDue : Fire("process_feeds", k)
    \/ Release("process_feeds")
    \/ ProcessAllFeeds(Succeeds)
    \/ \E f \in Feeds : Acquire(f)
    \/ \E f \in Feeds : CompleteTask(f, {ScenarioOutcome(f)}, Succeeds)
    \/ BatchJoin

SpecScenario == InitScenario /\ [][NextScenario]_vars

\* C11: in the scenario, once the batch has joined, the log table holds
\* exactly three entries, one per feed: success with 5 items for feed 1, error
\* with the timeout message for feed 2, error with the request-error message
\* for feed 3; the summary counts 1 successful and 2 failed of 3; feed 1's
\* last_updated is set and those of feeds 2 and 3 are untouched.
C11_ScenarioOutcome ==
    Joined =>
        /\ Cardinality(logs) = 3
        /\ \A f \in {1, 2, 3} : Cardinality(RunRows(f)) = 1
        /\ \A r \in RunRows(1) :
            r.status = "success" /\ r.items_processed = 5 /\ r.error_message = NoMessage
        /\ \A r \in RunRows(2) :
            /\ r.status = "error" /\ r.items_processed = 0
            /\ r.error_message = [text |-> "Timeout processing feed", feed |-> 2]
        /\ \A r \in RunRows(3) :
            /\ r.status = "error" /\ r.items_processed = 0
            /\ r.error_message = [text |-> "Request error processing feed", feed |-> 3]
        /\ summary[Len(summary)].total = 3
        /\ summary[Len(summary)].successful = 1
        /\ summary[Len(summary)].failed = 2
        /\ last_updated[1] # NoStamp
        /\ last_updated[2] = NoStamp
        /\ last_updated[3] = NoStamp

\* the scenario's batch has joined, after the third feed waited at the gate
\* for a day
C11_Witness ==
    /\ Joined
    /\ active = {1, 2, 3}
    /\ plan = NoPlan
    /\ max_concurrent_feeds = 2
    /\ Cardinality(logs) = 3
    /\ \E f \in Feeds, g \in Feeds : started_at[f] < started_at[g]

(***************************************************************************)
(* The locator refresh next to the batch run: the registry raises, knows   *)
(* no instance, or knows h1.  The event loop runs every coroutine that can *)
(* go on, and a parse call ends by its answer or by its 30 s timeout.      *)
(***************************************************************************)
RefreshAnswers ==
    {r \in RegistryAnswers :
        Len(r.services) <= 1 /\ \A i \in 1..Len(r.services) : r.services[i].Address = "h1"}

InitRefresh ==
    /\ InitScheduler
    /\ InitEmptyStorage
    /\ supabase = TRUE
    /\ max_concurrent_feeds \in 1..MaxCap
    /\ schema = "pk_id"
    /\ upstream = [f \in Feeds |-> 0]
    /\ active \in WorkSets
    /\ plan = NoPlan
    /\ run = MaxRuns - 1

NextRefresh ==
    \/ Start(RefreshAnswers)
    \/ \E j \in {"process_feeds", "service_discovery"}, k \in 1..MaxDue : Fire(j, k)
    \/ \E j \in {"process_feeds", "service_discovery"} : Release(j)
    \/ RunServiceDiscovery(RefreshAnswers)
    \/ ProcessAllFeeds(Succeeds)
    \/ \E f \in Feeds : Acquire(f)
    \/ \E f \in Feeds : CompleteTask(f, ParseOutcomes, Succeeds)
    \/ BatchJoin

FairRefresh ==
    /\ WF_vars(ProcessAllFeeds(Succeeds))
    /\ \A f \in Feeds : WF_vars(Acquire(f))
    /\ \A f \in Feeds : WF_vars(CompleteTask(f, ParseOutcomes, Succeeds))
    /\ WF_vars(BatchJoin)

SpecRefresh == InitRefresh /\ [][NextRefresh]_vars /\ FairRefresh

\* the last resolution pass ended in its exception handler
RefreshFailed == \E s \in Services : last_pass[s].raises

\* the endpoints a parse call may go to: the fallback or a registry instance
ParserEndpoints ==
    {FallbackParserUrl} \cup {[host |-> i.Address, port |-> i.Port] : i \in Instances}

\* the current run attempted every feed it read and logged its summary
BatchCompleted ==
    /\ Joined
    /\ \A f \in batch : task[f] = "done" /\ url_used[f] \in ParserEndpoints

\* C12: a batch run that is under way when, or starts after, a resolution
\* pass failed on the registry goes on to its summary, having sent a parse
\* call for every feed it read to the fallback or a cached instance URL.
C12_RegistryFailureNeverAbortsBatch ==
    (RefreshFailed /\ jobPc["process_feeds"] = "active") ~> BatchCompleted

\* a run joined whose first parse call went to h1 and whose second, sent
\* after a refresh failed on the registry, went to the fallback
C12_Witness ==
    /\ BatchCompleted
    /\ RefreshFailed
    /\ feed_parser_url = FallbackParserUrl
    /\ \E f \in batch, g \in batch :
        /\ url_used[f] = [host |-> "h1", port |-> 9001]
        /\ url_used[g] = FallbackParserUrl

(***************************************************************************)
(* The four jobs with collaborators that fail: the registry raises, parse  *)
(* calls time out or answer with a malformed body, and every storage write *)
(* and probe raises.  One feed is subscribed.                              *)
(***************************************************************************)
Fails == {FALSE}

InitJobs ==
    /\ InitScheduler
    /\ InitEmptyStorage
    /\ supabase = TRUE
    /\ max_concurrent_feeds = MaxCap
    /\ schema = "pk_id"
    /\ upstream = [f \in Feeds |-> 0]
    /\ active = {1}
    /\ plan = NoPlan
    /\ run = 0

NextJobs ==
    \/ Start(RegistryDown)
    \/ \E j \in JobIds, k \in 1..MaxDue : Fire(j, k)
    \/ \E j \in JobIds : Release(j)
    \/ RunServiceDiscovery(RegistryDown)
    \/ ProcessAllFeeds(Succeeds)
    \/ \E f \in Feeds : Acquire(f)
    \/ \E f \in Feeds : CompleteTask(f, {"timeout", "malformed"}, Fails)
    \/ BatchJoin
    \/ CleanupOldItems(Fails)
    \/ HealthCheckBegin
    \/ HealthCheckEnd(Fails)

SpecJobs == InitJobs /\ [][NextJobs]_vars

\* C13: no run of any of the four job bodies ends with an exception for the
\* executor, whatever its collaborators raised; while the scheduler runs all
\* four jobs stay registered, and a job whose run returned holds no instance,
\* so its next firing is submitted.
C13_JobBodiesContainFailures ==
    /\ \A j \in JobIds : job_event[j] # "error"
    /\ running => registered = JobIds
    /\ \A j \in JobIds : jobPc[j] = "idle" => inst[j] < MaxInstances(j)

\* every job has finished a run in which a collaborator failed (the registry
\* raised, the batch counted a failed feed, the sweep's delete raised, the
\* parser probe raised) and has been submitted again
C13_Witness ==
    /\ \A j \in JobIds : job_event[j] = "executed" /\ inst[j] = 1 /\ runsLeft[j] = 1
    /\ RefreshFailed
    /\ Len(summary) > 0
    /\ summary[Len(summary)].failed > 0
    /\ sweep_report = NoReport
    /\ health.parser = "exception"

(***************************************************************************)
(* The health check alone: the parser probe answers 200, answers another   *)
(* status or raises; the storage probe succeeds or raises.                 *)
(***************************************************************************)
InitHealth ==
    /\ InitScheduler
    /\ InitEmptyStorage
    /\ supabase \in BOOLEAN
    /\ max_concurrent_feeds = MaxCap
    /\ schema = "pk_id"
    /\ upstream = [f \in Feeds |-> 0]
    /\ active = {}
    /\ plan = NoPlan
    /\ run = 0

NextHealth ==
    \/ Start(RefreshAnswers)
    \/ Tick
    \/ \E k \in 1..MaxDue : Fire("health_check", k)
    \/ Release("health_check")
    \/ HealthCheckBegin
    \/ HealthCheckEnd(MayFail)

SpecHealth == InitHealth /\ [][NextHealth]_vars

\* C14: a health check whose parser probe raised has still probed the
\* storage (when a storage client is configured), and the body returned.
C14_ProbesIndependent ==
    (supabase /\ health.parser = "exception") =>
        /\ health.db \in {"ok", "failed"}
        /\ job_event["health_check"] = "executed"

(***************************************************************************)
(* The batch run with stop() called at any moment.  Storage calls succeed. *)
(***************************************************************************)
InitStop ==
    /\ InitScheduler
    /\ InitEmptyStorage
    /\ supabase = TRUE
    /\ max_concurrent_feeds \in 1..MaxCap
    /\ schema = "pk_id"
    /\ upstream \in Documents
    /\ active \in WorkSets
    /\ plan = NoPlan
    /\ run = MaxRuns - 1

NextStop ==
    \/ Start(RegistryDown)
    \/ Stop
    \/ \E k \in 1..MaxDue : Fire("process_feeds", k)
    \/ Release("process_feeds")
    \/ ProcessAllFeeds(Succeeds)
    \/ \E f \in Feeds : Acquire(f)
    \/ \E f \in Feeds : CompleteTask(f, {"ok", "timeout"}, Succeeds)
    \/ BatchJoin

SpecStop == InitStop /\ [][NextStop]_vars

\* C15: stop() cancels neither the batch run in flight nor any of its feed
\* tasks: the step that clears the running flag leaves the run and every
\* feed task where they were, free to go on to their log entries and summary.
C15_StopLetsRunDrain ==
    [][(running /\ ~running') =>
        /\ jobPc'["process_feeds"] = jobPc["process_feeds"]
        /\ \A f \in Feeds : task'[f] = task[f]]_vars

\* C16: without a storage client start() fails: no job is installed and the
\* scheduler does not enter the running state.
C16_StartFailsWithoutStore ==
    ~supabase => (~running /\ registered = {})

(***************************************************************************)
(* Sweeps that may fail, over tables that hold, next to younger rows, an   *)
(* item and a log entry that expire when the clock has moved one day on.   *)
(***************************************************************************)
InitRetry ==
    /\ InitScheduler
    /\ InitNoFeeds
    /\ last_updated = [f \in Feeds |-> NoStamp]
    /\ feed_items = [k \in ItemKeys |->
                        IF k = <<1, 1>> THEN <<NowInit - RetentionDays>>
                        ELSE IF k = <<2, 1>> THEN <<NowInit - RetentionDays + 2>>
                        ELSE <<>>]
    /\ logs = {OldLog(NowInit - RetentionDays), OldLog(NowInit - RetentionDays + 2)}

NextRetry ==
    \/ Start(RefreshAnswers)
    \/ Tick
    \/ \E k \in 1..MaxDue : Fire("cleanup_old_items", k)
    \/ CleanupOldItems(MayFail)
    \/ Release("cleanup_old_items")

SpecRetry == InitRetry /\ [][NextRetry]_vars

\* the rows of the two tables that a sweep with this cutoff must keep
LiveItems(table, cutoff) ==
    [k \in ItemKeys |-> SelectSeq(table[k], LAMBDA c : c >= cutoff)]

LiveLogs(rows, cutoff) == {r \in rows : r.created_at >= cutoff}

\* C17: whatever fails in a sweep, the sweep adds no row and keeps every row
\* of either table that is not older than its cutoff; and a sweep whose
\* storage calls succeed leaves neither table with a row older than its
\* cutoff, whatever earlier sweeps left undone.
C17_RetentionSelfCorrecting ==
    [][CleanupOldItems(MayFail) =>
        LET cutoff == now - RetentionDays
        IN  /\ LiveItems(feed_items', cutoff) = LiveItems(feed_items, cutoff)
            /\ LiveLogs(logs', cutoff) = LiveLogs(logs, cutoff)
            /\ ItemCount(feed_items') <= ItemCount(feed_items)
            /\ logs' \subseteq logs
            /\ CleanupOldItems(Succeeds) =>
                /\ feed_items' = LiveItems(feed_items', cutoff)
                /\ logs' = LiveLogs(logs', cutoff)]_vars

\* the last sweep succeeded and deleted the expired log entry but no item:
\* the expired item had gone in an earlier sweep whose delete on the log
\* table failed; the younger rows are still there
C17_Witness ==
    /\ sweep_report = [items |-> 0, logs |-> 1]
    /\ feed_items[<<1, 1>>] = <<>>
    /\ feed_items[<<2, 1>>] = <<NowInit - RetentionDays + 2>>
    /\ logs = {OldLog(NowInit - RetentionDays + 2)}

(***************************************************************************)
(* Batch runs while the web API switches feeds on and off.  Storage calls  *)
(* succeed.                                                                *)
(***************************************************************************)
InitToggle ==
    /\ InitScheduler
    /\ InitEmptyStorage
    /\ supabase = TRUE
    /\ max_concurrent_feeds = MaxCap
    /\ schema = "pk_id"
    /\ upstream \in Documents
    /\ active \in WorkSets
    /\ plan = NoPlan
    /\ run = 0

NextToggle ==
    \/ Start(RegistryDown)
    \/ \E f \in 1..MaxActive, b \in BOOLEAN : SetActive(f, b)
    \/ \E k \in 1..MaxDue : Fire("process_feeds", k)
    \/ Release("process_feeds")
    \/ ProcessAllFeeds(Succeeds)
    \/ \E f \in Feeds : Acquire(f)
    \/ \E f \in Feeds : CompleteTask(f, {"ok", "timeout"}, Succeeds)
    \/ BatchJoin

SpecToggle == InitToggle /\ [][NextToggle]_vars

\* a step sends the parse call of feed f
ParseCallIssued(f) == task[f] # "parsing" /\ task'[f] = "parsing"

\* a step writes nothing that belongs to feed f
FeedRowsUntouched(f) ==
    /\ \A l \in 1..MaxItems : feed_items'[<<f, l>>] = feed_items[<<f, l>>]
    /\ {r \in logs' : r.feed_id = f} = {r \in logs : r.feed_id = f}
    /\ last_updated'[f] = last_updated[f]

\* C18 as stated: for a feed with active = false no step issues a parse call,
\* writes an item, appends a log entry or changes its last_updated.
C18_InactiveNeverTouched ==
    [][\A f \in Feeds : f \notin active => ~ParseCallIssued(f) /\ FeedRowsUntouched(f)]_vars

\* C18: a batch run reads the feeds with active = true once, at its start,
\* and touches no other feed: for a feed that was inactive at that read no
\* step of the run issues a parse call, writes an item, appends a log entry
\* or changes its last_updated.  (A feed switched off after the read is still
\* processed by that run.)
C18_InactiveAtReadUntouched ==
    [][/\ batch' # batch => batch' = active
       /\ \A f \in Feeds :
            f \notin batch' => /\ ~ParseCallIssued(f)
                               /\ task'[f] \notin {"pending", "parsing"}
                               /\ FeedRowsUntouched(f)]_vars

\* the second run has joined over feed 1 alone: feed 2, processed by the
\* first run, was switched off in between and has no entry of the second
\* run; feed 3, never active, was never touched
C18_Witness ==
    /\ Joined
    /\ run = 2
    /\ batch = {1}
    /\ active = {1}
    /\ plan = NoPlan
    /\ \E r \in logs : r.feed_id = 2 /\ r.run = 1
    /\ \A r \in logs : r.feed_id = 2 => r.run = 1
    /\ \A r \in logs : r.feed_id # 3
    /\ task[3] = "none"

\* C19: a batch run that reads an empty work set returns at once as an
\* executed run: the step creates no task and sends no parse call, writes no
\* item, no log entry and no last_updated, and logs no summary.
C19_EmptyWorkSetReturnsAtOnce ==
    [][(ProcessAllFeeds(MayFail) /\ supabase /\ active = {}) =>
        /\ UNCHANGED <<storageVars, batchVars>>
        /\ jobPc'["process_feeds"] = "ready"
        /\ runsLeft'["process_feeds"] = runsLeft["process_feeds"] - 1
        /\ job_event'["process_feeds"] = "executed"]_vars

\* a run over an empty work set has returned and its instance is released
C19_Witness ==
    /\ supabase
    /\ active = {}
    /\ plan = NoPlan
    /\ job_event["process_feeds"] = "executed"
    /\ jobPc["process_feeds"] = "idle"
    /\ inst["process_feeds"] = 0
    /\ summary = <<>>
    /\ logs = {}
    /\ \A f \in Feeds : task[f] = "none" /\ last_updated[f] = NoStamp

(***************************************************************************)
(* The parser service handling /parse-batch requests of up to MaxBatch     *)
(* URLs, one after the other.                                              *)
(***************************************************************************)
BatchRequests == UNION {[1..n -> ParserUrls] : n \in 0..MaxBatch}

InitParserService == InitScheduler /\ InitEmptyStorage /\ InitNoFeeds

NextParserService ==
    \/ \E feed_urls \in BatchRequests : ReceiveBatch(feed_urls)
    \/ ParseNext
    \/ RespondBatch

SpecParserService == InitParserService /\ [][NextParserService]_vars

InitJoin ==
    /\ InitScheduler
    /\ InitEmptyStorage
    /\ supabase = TRUE
    /\ max_concurrent_feeds \in 1..MaxCap
    /\ schema = "pk_feed_link"
    /\ upstream = [f \in Feeds |-> 0]
    /\ active \in WorkSets
    /\ plan = NoPlan
    /\ run = 0

NextJoin ==
    \/ Start(RegistryDown)
    \/ \E k \in 1..MaxDue : Fire("process_feeds", k)
    \/ Release("process_feeds")
    \/ ProcessAllFeeds(Succeeds)
    \/ \E f \in Feeds : Acquire(f)
    \/ \E f \in Feeds : RaiseBeforeTry(f)
    \/ \E f \in Feeds : CompleteTask(f, {"ok", "timeout"}, Succeeds)
    \/ BatchJoin

SpecJoin == InitJoin /\ [][NextJoin]_vars

\* the summaries logged for run r
SummariesOf(r) == {i \in 1..Len(summary) : summary[i].run = r}

\* C21: the summary of a batch run is logged only after every feed task of
\* that run has resolved (returned or raised): while a task of the current run
\* waits at the gate or is in flight the run has no summary; and every run
\* that created feed tasks logs exactly one summary, at its join.
C21_SummaryAfterJoin ==
    /\ (\E f \in batch : task[f] \in {"pending", "parsing"}) => SummariesOf(run) = {}
    /\ \A r \in 1..run :
        Cardinality(SummariesOf(r)) =
            IF r = run /\ jobPc["process_feeds"] = "active" THEN 0 ELSE 1

\* the second run has joined after one of its tasks raised and another returned
C21_Witness ==
    /\ run = 2
    /\ Cardinality(SummariesOf(1)) = 1
    /\ Cardinality(SummariesOf(2)) = 1
    /\ \E f \in batch, g \in batch : result[f] = "KeyError" /\ result[g] \in {"True", "False"}

\* the feeds of the current run whose task went through the success path: it
\* handed a success entry to the recorder
OnSuccessPath == {f \in batch : \E e \in emitted[f] : e.row.status = "success"}

\* C22: in the summary of a batch run, successful is the number of feed tasks
\* that completed the success path and failed the number of all other tasks
\* of the run, a task that raised out of its coroutine included; the two add
\* up to the number of active feeds the run read.
C22_CountsPartitionTheRun ==
    Joined =>
        LET s == summary[Len(summary)]
        IN  /\ s.successful = Cardinality(OnSuccessPath)
            /\ s.failed = Cardinality(batch \ OnSuccessPath)
            /\ s.successful + s.failed = Cardinality(active)
            /\ s.total = Cardinality(active)

\* a joined run of two feeds: one task raised out of its coroutine, one succeeded
C22_Witness ==
    /\ Joined
    /\ \E f \in batch, g \in batch : result[f] = "KeyError" /\ g \in OnSuccessPath
    /\ summary[Len(summary)].successful = 1
    /\ summary[Len(summary)].failed = 1

\* the messages of the entries the task of feed f hands to the recorder in this step
NewTexts(f) == {e.row.error_message.text : e \in emitted'[f] \ emitted[f]}

\* C23: a failed feed task lands in exactly one except clause: a parse call
\* that timed out is classified as timeout (not as request error, although a
\* timeout is a transport failure too), any other transport failure as
\* request error, and a non-2xx answer or a malformed body, like every other
\* exception, as processing error.
C23_FailureClassified ==
    [][\A f \in Feeds :
        /\ CompleteTask(f, {"timeout"}, MayFail)
            => NewTexts(f) = {"Timeout processing feed"}
        /\ CompleteTask(f, {"request_error"}, MayFail)
            => NewTexts(f) = {"Request error processing feed"}
        /\ CompleteTask(f, {"http_status", "malformed"}, MayFail)
            => NewTexts(f) = {"Error processing feed"}
        /\ (task[f] = "parsing" /\ result'[f] = "False")
            => \E t \in ErrorTexts : NewTexts(f) = {t}]_vars

\* one run in which a parse call timed out and another got a bad answer
C23_Witness ==
    \E f \in batch, g \in batch :
        /\ result[f] = "False"
        /\ result[g] = "False"
        /\ \E e \in emitted[f] : e.row.error_message.text = "Timeout processing feed"
        /\ \E e \in emitted[g] : e.row.error_message.text = "Error processing feed"

\* the FeedItem rows of feed f
ItemsOf(table, f) == [l \in 1..MaxItems |-> table[<<f, l>>]]

\* C24: a batch run writes a feed's last_updated only on that feed's success
\* path, in the step in which its parse call returned successfully and the
\* item store step ran; the task of a feed that ends in a classified failure
\* leaves the feed's last_updated and its FeedItem rows as they were.
C24_TimestampOnlyOnSuccess ==
    [][\A f \in Feeds :
        /\ last_updated'[f] # last_updated[f]
            => /\ task[f] = "parsing"
               /\ result'[f] = "True"
               /\ \E e \in emitted'[f] \ emitted[f] : e.row.status = "success"
        /\ (task[f] = "parsing" /\ result'[f] = "False")
            => /\ last_updated'[f] = last_updated[f]
               /\ ItemsOf(feed_items', f) = ItemsOf(feed_items, f)]_vars

\* a joined run: one feed failed and has neither timestamp nor rows although
\* its document has items, the other succeeded and has both
C24_Witness ==
    /\ Joined
    /\ \E f \in batch, g \in batch :
        /\ result[f] = "False"
        /\ upstream[f] > 0
        /\ last_updated[f] = NoStamp
        /\ \A l \in 1..MaxItems : feed_items[<<f, l>>] = <<>>
        /\ result[g] = "True"
        /\ last_updated[g] # NoStamp
        /\ feed_items[<<g, 1>>] # <<>>

\* C25: a failed insert of a log entry does not cascade: the feed task returns
\* what it would have returned with the insert succeeding and makes the same
\* writes to the other tables, every task of the run still resolves, the
\* counts of the summary are those of the outcomes, and the batch job ends as
\* an executed run.
C25_TelemetryFailureContained ==
    /\ \A f \in batch : \A e \in emitted[f] :
        result[f] = IF e.row.status = "success" THEN "True" ELSE "False"
    /\ \A f \in InFlight : \A o \in ParseOutcomes, storeOk \in MayFail, stampOk \in MayFail :
        LET kept == FeedTaskEffect(f, o, storeOk, stampOk, TRUE)
            lost == FeedTaskEffect(f, o, storeOk, stampOk, FALSE)
        IN  /\ lost.returns = kept.returns
            /\ lost.feed_items = kept.feed_items
            /\ lost.last_updated = kept.last_updated
            /\ lost.logs = logs
    /\ Joined =>
        /\ \A f \in batch : task[f] = "done"
        /\ summary[Len(summary)].successful = Cardinality(OnSuccessPath)
        /\ summary[Len(summary)].failed = Cardinality(batch \ OnSuccessPath)
        /\ job_event["process_feeds"] = "executed"

\* a joined run of two feeds in which the insert of a success entry failed:
\* the feed counts as successful and the other feed's entry is in the table
C25_Witness ==
    /\ Joined
    /\ job_event["process_feeds"] = "executed"
    /\ \E f \in batch, g \in batch :
        /\ f # g
        /\ \E e \in emitted[f] : e.row.status = "success" /\ ~e.stored
        /\ RunRows(f) = {}
        /\ result[f] = "True"
        /\ RunRows(g) # {}
    /\ summary[Len(summary)].successful >= 1

\* C26: when the registry answers the feed-parser lookup of a refresh run with
\* a healthy instance, the feed_parser_url cached by that run is the
\* instance's address and port, and every parse call started afterwards, also
\* by a task of a batch already running, is sent to the cached URL.
C26_RefreshPicksUpMoves ==
    [][/\ (RunServiceDiscovery(RefreshAnswers)
            /\ ~last_pass'["feed-parser"].raises
            /\ Len(last_pass'["feed-parser"].services) > 0)
           => feed_parser_url' = FirstInstanceUrl(last_pass'["feed-parser"].services)
       /\ \A f \in Feeds : ParseCallIssued(f) => url_used'[f] = feed_parser_url]_vars

(***************************************************************************)
(* One batch run behind the gate, with every outcome of a parse call and   *)
(* tasks that raise before their try block.  The event loop runs every     *)
(* coroutine that can go on, and a parse call ends by its answer or by its *)
(* 30 s timeout.  Storage calls succeed.                                   *)
(***************************************************************************)
InitGate ==
    /\ InitScheduler
    /\ InitEmptyStorage
    /\ supabase = TRUE
    /\ max_concurrent_feeds \in 1..MaxCap
    /\ schema = "pk_feed_link"
    /\ upstream = [f \in Feeds |-> 0]
    /\ active \in WorkSets
    /\ plan = NoPlan
    /\ run = MaxRuns - 1

NextGate ==
    \/ Start(RegistryDown)
    \/ \E k \in 1..MaxDue : Fire("process_feeds", k)
    \/ Release("process_feeds")
    \/ ProcessAllFeeds(Succeeds)
    \/ \E f \in Feeds : Acquire(f)
    \/ \E f \in Feeds : RaiseBeforeTry(f)
    \/ \E f \in Feeds : CompleteTask(f, ParseOutcomes, Succeeds)
    \/ BatchJoin

FairGate ==
    /\ \A f \in Feeds : WF_vars(Acquire(f) \/ RaiseBeforeTry(f))
    /\ \A f \in Feeds : WF_vars(CompleteTask(f, ParseOutcomes, Succeeds))
    /\ WF_vars(BatchJoin)

SpecGate == InitGate /\ [][NextGate]_vars /\ FairGate

\* C27: with a gate of at least one slot and parse calls that end, a feed
\* task gives its slot back on every path (success, timeout, request error,
\* processing error, an exception leaving the task): the free slots and the
\* tasks in flight always add up to max_concurrent_feeds, every task that
\* waits at the gate is admitted and resolves, and the run joins with every
\* slot free.
C27_GateNeverLeaks ==
    /\ [](jobPc["process_feeds"] = "active"
            => sem + Cardinality(InFlight) = max_concurrent_feeds)
    /\ \A f \in Feeds : (task[f] = "pending") ~> (task[f] = "done")
    /\ (jobPc["process_feeds"] = "active") ~> (Joined /\ sem = max_concurrent_feeds)

\* a run of two feeds behind a gate of one slot has joined with the slot free,
\* after one task raised out of its coroutine and the other failed
C27_Witness ==
    /\ max_concurrent_feeds = 1
    /\ Joined
    /\ sem = max_concurrent_feeds
    /\ \E f \in batch, g \in batch : result[f] = "KeyError" /\ result[g] = "False"

(***************************************************************************)
(* The refresh job next to batch runs and health checks: the registry      *)
(* raises, knows no instance, or knows h1, at start and at every refresh.  *)
(* Parse calls, storage calls and probes succeed.                          *)
(***************************************************************************)
InitEndpoints ==
    /\ InitScheduler
    /\ InitEmptyStorage
    /\ supabase = TRUE
    /\ max_concurrent_feeds \in 1..MaxCap
    /\ schema = "pk_id"
    /\ upstream = [f \in Feeds |-> 0]
    /\ active \in WorkSets
    /\ plan = NoPlan
    /\ run = MaxRuns - 1

EndpointJobs == {"process_feeds", "health_check", "service_discovery"}

NextEndpoints ==
    \/ Start(RefreshAnswers)
    \/ \E j \in EndpointJobs, k \in 1..MaxDue : Fire(j, k)
    \/ \E j \in EndpointJobs : Release(j)
    \/ RunServiceDiscovery(RefreshAnswers)
    \/ ProcessAllFeeds(Succeeds)
    \/ \E f \in Feeds : Acquire(f)
    \/ \E f \in Feeds : CompleteTask(f, {"ok"}, Succeeds)
    \/ BatchJoin
    \/ HealthCheckBegin
    \/ HealthCheckEnd(Succeeds)

SpecEndpoints == InitEndpoints /\ [][NextEndpoints]_vars

\* what web_api_url can be after a resolution pass
WebApiEndpoints ==
    {FallbackWebApiUrl} \cup {[host |-> i.Address, port |-> i.Port] : i \in Instances}

\* start() has returned
Started == registered # {}

\* C28: once start() has completed, feed_parser_url and web_api_url are both
\* defined in every state, each an address and port taken from the registry
\* or the static fallback, and together they are what one whole resolution
\* pass leaves; no job is submitted or running before that, and every parse
\* call was sent to a defined endpoint, however refresh runs interleave with
\* batch runs and health checks.
C28_EndpointsAlwaysDefined ==
    /\ Started =>
        /\ feed_parser_url \in ParserEndpoints
        /\ web_api_url \in WebApiEndpoints
        /\ LET r == DiscoverServicesResult(last_pass["feed-parser"], last_pass["web-api"])
           IN  feed_parser_url = r.feed_parser_url /\ web_api_url = r.web_api_url
    /\ (\E j \in JobIds : inst[j] > 0 \/ jobPc[j] # "idle") => Started
    /\ \A f \in Feeds : task[f] \in {"parsing", "done"} => url_used[f] \in ParserEndpoints

\* a refresh ran between two parse calls of a batch while a health check was
\* waiting for its answer: one task was sent to the fallback, the cache now
\* holds the instance the registry knows
C28_Witness ==
    /\ Started
    /\ jobPc["health_check"] = "active"
    /\ Len(last_pass["feed-parser"].services) > 0
    /\ feed_parser_url = FirstInstanceUrl(last_pass["feed-parser"].services)
    /\ \E f \in batch, g \in batch :
        /\ task[f] = "done"
        /\ url_used[f] = FallbackParserUrl
        /\ task[g] = "pending"

\* C29: a feed is reported as success only if its items were stored: when a
\* feed task has emitted a success entry and advanced last_updated, the
\* upsert of the feed's parsed items succeeded (each item has its row) and
\* items_processed in the entry is the number of rows stored; a failing
\* upsert makes the task end as failed with an error entry.
C29_SuccessMeansStored ==
    \A f \in batch : \A e \in emitted[f] :
        (e.row.status = "success" /\ last_updated[f] # NoStamp) =>
            /\ \A l \in 1..upstream[f] : feed_items[<<f, l>>] # <<>>
            /\ e.row.items_processed = upstream[f]
            /\ result[f] = "True"

\* the texts of the lines a step of the batch body logs
LoggedTexts == {logged'[i].text : i \in 1..Len(logged')}

\* C30: a failed read of the active work set is told apart from an empty
\* work set: when the select of the active feeds fails, the run does not end
\* as a normal "no active feeds" run but ends with the failure as its outcome
\* (the error branch of the batch body, or an errored run for the executor).
C30_ReadFailureIsAnErrorOutcome ==
    [][(supabase /\ ProcessAllFeeds(Fails)) =>
        /\ "No active feeds to process" \notin LoggedTexts
        /\ \/ "Error during feed processing" \in LoggedTexts
           \/ job_event'["process_feeds"] = "error"]_vars

(***************************************************************************)
(* One batch run in an environment whose answers are fixed per feed before *)
(* the run starts, for every gate size and every interleaving of the feed  *)
(* tasks, while the clock runs.                                            *)
(***************************************************************************)
\* the answers to the calls of one feed task; the storage calls of a task
\* whose parse call failed are the insert of its log entry only
PlanEntries ==
    {e \in [parse : ParseOutcomes, store : BOOLEAN, stamp : BOOLEAN, log : BOOLEAN] :
        e.parse # "ok" => e.store /\ e.stamp}

Plans ==
    {[f \in Feeds |-> IF f <= MaxActive THEN u[f] ELSE NoPlanEntry] :
        u \in [1..MaxActive -> PlanEntries]}

InitPlanned ==
    /\ InitScheduler
    /\ InitEmptyStorage
    /\ supabase = TRUE
    /\ max_concurrent_feeds \in 1..MaxCap
    /\ schema = "pk_feed_link"
    /\ upstream = [f \in Feeds |-> IF f <= MaxActive THEN MaxUpstream ELSE 0]
    /\ active \in WorkSets
    /\ plan \in {q \in Plans : \A f \in Feeds \ active : q[f] = NoPlanEntry}
    /\ run = MaxRuns - 1

NextPlanned ==
    \/ Start(RegistryDown)
    \/ Tick
    \/ \E k \in 1..MaxDue : Fire("process_feeds", k)
    \/ Release("process_feeds")
    \/ ProcessAllFeeds(Succeeds)
    \/ \E f \in Feeds : Acquire(f)
    \/ \E f \in Feeds : CompleteTaskAsPlanned(f)
    \/ BatchJoin

SpecPlanned == InitPlanned /\ [][NextPlanned]_vars

\* the feeds whose planned parse call succeeds
PlannedOk == {f \in active : plan[f].parse = "ok"}

\* (feed_id, status, items_processed) of the entry the plan gives feed f
PlannedEntry(f) ==
    <<f,
      IF f \in PlannedOk THEN "success" ELSE "error",
      IF f \in PlannedOk /\ plan[f].store THEN upstream[f] ELSE 0>>

\* (feed_id, status, items_processed) of a log row
EntryOf(r) == <<r.feed_id, r.status, r.items_processed>>

\* the rows of the log table the current run wrote
AllRunRows == {r \in logs : r.run = run}

\* C31: the result of a batch run is a function of the per-feed outcomes: for
\* a fixed set of active feeds and fixed answers to each feed's parse and
\* storage calls, the joined run has the same successful and failed counts,
\* the same entries (feed_id, status, items_processed), each once, emitted
\* and in the log table, and the same set of feeds with last_updated
\* written, whatever the interleaving of the tasks and the size of the gate.
C31_OutcomeDeterminesResult ==
    Joined =>
        /\ summary[Len(summary)].successful = Cardinality(PlannedOk)
        /\ summary[Len(summary)].failed = Cardinality(active \ PlannedOk)
        /\ \A f \in active :
            /\ Cardinality(emitted[f]) = 1
            /\ \A e \in emitted[f] : EntryOf(e.row) = PlannedEntry(f)
        /\ {EntryOf(r) : r \in AllRunRows} = {PlannedEntry(f) : f \in {g \in active : plan[g].log}}
        /\ Cardinality(AllRunRows) = Cardinality({g \in active : plan[g].log})
        /\ {f \in Feeds : last_updated[f] # NoStamp} = {f \in PlannedOk : plan[f].stamp}

\* a run of two feeds behind a gate of two slots has joined: the feed planned
\* to succeed was admitted first and resolved last, after the clock moved, and
\* the other timed out in between
C31_Witness ==
    /\ Joined
    /\ max_concurrent_feeds = 2
    /\ \E f \in active, g \in active :
        /\ plan[f].parse = "ok"
        /\ plan[g].parse = "timeout"
        /\ \E e \in emitted[f], d \in emitted[g] :
            /\ started_at[f] < e.row.created_at
            /\ d.row.created_at < e.row.created_at
            /\ started_at[f] <= started_at[g]
====
